---- MODULE Spec2Model ----
(***************************************************************************)
(* Model of legal_documents.py: seven pure document generators, the two    *)
(* formatting helpers and the optional save_as_docx export.                *)
(*                                                                         *)
(* Text is a sequence of atoms.  Caller-supplied values and the centred    *)
(* headings are spelled one character per atom, so Len is Python's len on  *)
(* them; the fixed prose of a template body is kept as one atom per        *)
(* literal run between two placeholders or line breaks, and a line break   *)
(* is the atom "\n".  Caller-supplied text is single-line (Alphabet holds  *)
(* no line break).                                                         *)
(***************************************************************************)
EXTENDS Integers, Sequences, FiniteSets, TLC

VARIABLES pc, op, kw, res, files, docxInstalled, snap

vars == <<pc, op, kw, res, files, docxInstalled, snap>>

(* ------------------------------ bounds --------------------------------- *)
MaxLen == 2
MaxList == 2
MaxWidth == 5

Alphabet == {"a", ","}
Text == UNION {[1..k -> Alphabet] : k \in 0..MaxLen}
ElemText == {<<>>, <<"a">>, <<",">>}
IntVals == {0, 7, 45}
Widths == 0..MaxWidth
Dests == {"out.docx", "/nonexistent/out.docx"}

(* --------------------------- Python values ----------------------------- *)
\* a Python value: its type tag and, by type, its text, number or items
PyVal(t, s, n, l) ==
  [k \in {"t", "s", "n", "l"} |->
     CASE k = "t" -> t [] k = "s" -> s [] k = "n" -> n [] k = "l" -> l]

PyStr(s) == PyVal("str", s, 0, <<>>)
PyInt(n) == PyVal("int", <<>>, n, <<>>)
PyList(l) == PyVal("list", <<>>, 0, l)
PyNone == PyVal("none", <<>>, 0, <<>>)

Digit(d) == <<"0", "1", "2", "3", "4", "5", "6", "7", "8", "9">>[d + 1]

RECURSIVE Str(_)
Str(n) == IF n < 10 THEN <<Digit(n)>> ELSE Str(n \div 10) \o <<Digit(n % 10)>>

\* str(v), as an f-string placeholder applies it
Fmt(v) ==
  CASE v.t = "str" -> v.s
    [] v.t = "int" -> Str(v.n)
    [] v.t = "none" -> <<"None">>

Truthy(v) ==
  CASE v.t = "str" -> v.s # <<>>
    [] v.t = "int" -> v.n # 0
    [] v.t = "list" -> v.l # <<>>
    [] v.t = "none" -> FALSE

\* x or y
PyOr(x, y) == IF Truthy(x) THEN x ELSE y

UpperChar(c) == IF c = "a" THEN "A" ELSE c

\* s.upper()
Upper(s) == [i \in 1..Len(s) |-> UpperChar(s[i])]

\* c in s
In(c, s) == \E i \in 1..Len(s) : s[i] = c

\* s.split(c): the pieces of s between the occurrences of c
RECURSIVE Split(_, _)
Split(s, c) ==
  IF ~In(c, s) THEN <<s>>
  ELSE LET k == CHOOSE i \in 1..Len(s) : s[i] = c /\ \A j \in 1..(i - 1) : s[j] # c
       IN <<SubSeq(s, 1, k - 1)>> \o Split(SubSeq(s, k + 1, Len(s)), c)

\* sep.join(parts)
RECURSIVE Join(_, _)
Join(sep, parts) ==
  IF parts = <<>> THEN <<>>
  ELSE IF Len(parts) = 1 THEN parts[1]
  ELSE parts[1] \o sep \o Join(sep, Tail(parts))

\* text.splitlines()
RECURSIVE SplitLines(_)
SplitLines(text) ==
  IF text = <<>> THEN <<>>
  ELSE IF ~In("\n", text) THEN <<text>>
  ELSE LET k == CHOOSE i \in 1..Len(text) : text[i] = "\n" /\ \A j \in 1..(i - 1) : text[j] # "\n"
       IN <<SubSeq(text, 1, k - 1)>> \o SplitLines(SubSeq(text, k + 1, Len(text)))

Spaces(k) == [i \in 1..k |-> " "]

(* ------------------------------ helpers -------------------------------- *)
\* _center with the odd space of the padding always on the right
center_extra_right(text, width) ==
  LET marg == width - Len(text)
      left == marg \div 2
  IN IF marg <= 0 THEN text
     ELSE Spaces(left) \o text \o Spaces(marg - left)

\* str.center: the odd space of the padding goes to the left exactly when
\* both the padding and the width are odd
_center(text, width) ==
  LET marg == width - Len(text)
      left == (marg \div 2) + ((marg % 2) * (width % 2))
  IN IF marg <= 0 THEN text
     ELSE Spaces(left) \o text \o Spaces(marg - left)

_line(width) == [i \in 1..width |-> "_"]

(* --------------------------- call binding ------------------------------ *)
\* what a call leaves with its caller: how it ended, the parameters an
\* error names, and the text returned
Result(status, fields, text) ==
  [k \in {"status", "fields", "text"} |->
     CASE k = "status" -> status [] k = "fields" -> fields [] k = "text" -> text]

Ok(text) == Result("ok", {}, text)
Raise(exc, fields) == Result(exc, fields, <<>>)
NoResult == Result("none", {}, <<>>)
NoCall == [c \in {} |-> PyNone]

\* required parameters the keyword arguments leave unbound
Missing(args, params, defaults) == (params \ DOMAIN defaults) \ DOMAIN args

\* the parameters as the function body sees them
Bind(args, params, defaults) ==
  [p \in params |-> IF p \in DOMAIN args THEN args[p] ELSE defaults[p]]

\* a dict with the given keys: its "name" and one other entry
Dict(keys, name, other) == [k \in keys |-> IF k = "name" THEN name ELSE other]

\* d.get(k): None when the key is absent
Get(d, k) == IF k \in DOMAIN d THEN d[k] ELSE PyNone

\* d.get(k, default)
GetOr(d, k, default) == IF k \in DOMAIN d THEN d[k] ELSE default

\* the concatenation of a sequence of texts
RECURSIVE Concat(_)
Concat(parts) == IF parts = <<>> THEN <<>> ELSE parts[1] \o Concat(Tail(parts))

(* ------------------------- 1. Writ Affidavit --------------------------- *)
Params_affidavit ==
  {"court_name", "court_place", "petition_no", "year", "petitioner", "respondent",
   "deponent_name", "deponent_age", "father_or_husband_name", "residence",
   "paragraphs_true_up_to", "annexures_range", "verification_place",
   "verification_day", "verification_month"}

Def_affidavit ==
  [p \in {"paragraphs_true_up_to", "annexures_range", "verification_place",
           "verification_day", "verification_month"} |->
     CASE p = "paragraphs_true_up_to" -> PyInt(20)
       [] p = "annexures_range" -> PyStr(<<"A to T">>)
       [] OTHER -> PyStr(<<>>)]

\* affidavit_header with the petition number printed where the year belongs
affidavit_header_year_slip(a) ==
  Join(<<"\n">>,
       <<_center(<<"I","N"," ","T","H","E"," ","H","O","N","'","B","L","E"," ","H","I","G","H"," ","C","O","U","R","T"," ","O","F"," ">> \o Upper(a.court_name.s)
                   \o <<" ","A","T"," ">> \o Upper(a.court_place.s), 80),
         <<>>,
         _center(<<"W","R","I","T"," ","P","E","T","I","T","I","O","N"," ","N","O","."," ">> \o Fmt(a.petition_no)
                   \o <<" ","O","F"," ">> \o Fmt(a.petition_no), 80),
         <<>>
       >>)

affidavit_header(a) ==
  Join(<<"\n">>,
       <<_center(<<"I","N"," ","T","H","E"," ","H","O","N","'","B","L","E"," ","H","I","G","H"," ","C","O","U","R","T"," ","O","F"," ">> \o Upper(a.court_name.s)
                   \o <<" ","A","T"," ">> \o Upper(a.court_place.s), 80),
         <<>>,
         _center(<<"W","R","I","T"," ","P","E","T","I","T","I","O","N"," ","N","O","."," ">> \o Fmt(a.petition_no)
                   \o <<" ","O","F"," ">> \o Fmt(a.year), 80),
         <<>>
       >>)

generate_affidavit(args) ==
  IF Missing(args, Params_affidavit, Def_affidavit) # {}
  THEN Raise("TypeError", Missing(args, Params_affidavit, Def_affidavit))
  ELSE
    LET a == Bind(args, Params_affidavit, Def_affidavit)
        header == affidavit_header(a)
        parties ==
            Fmt(a.petitioner)
            \o <<"\n", "    ...Petitioner", "\n", "Vs.", "\n">>
            \o Fmt(a.respondent)
            \o <<"\n", "    ...Respondent", "\n", "\n">>
        body ==
            <<"AFFIDAVIT OF DEPONENT", "\n", "\n", "Affidavit of ">>
            \o Fmt(a.deponent_name)
            \o <<", aged about ">>
            \o Fmt(a.deponent_age)
            \o <<" years, son/daughter of ">>
            \o Fmt(a.father_or_husband_name)
            \o <<", resident of ">>
            \o Fmt(a.residence)
            \o <<".", "\n", "\n", "I, ">>
            \o Fmt(a.deponent_name)
            \o <<", the deponent above-named, do hereby solemnly affirm and state on oath as under:", "\n", "\n", "1. That I am the Petitioner in the aforesaid Writ Petition and I am fully conversant with the facts of the case.", "\n", "\n", "2. That I have read the Writ Petition and the annexures thereto and I fully understand the contents thereof.", "\n", "\n", "3. That the contents of paragraphs 1 to ">>
            \o Fmt(a.paragraphs_true_up_to)
            \o <<" of the Writ Petition are true to my own knowledge and belief.", "\n", "\n", "4. That annexures ">>
            \o Fmt(a.annexures_range)
            \o <<" to the Writ Petition have been compared by me with their respective originals and are certified to be true copies.", "\n", "\n", "5. That no part of this affidavit is false and nothing material has been concealed therefrom.", "\n", "\n", "DEPONENT", "\n", "Name: ">>
            \o Fmt(a.deponent_name)
            \o <<"\n", "Signature: _______________________", "\n", "\n", "VERIFICATION", "\n", "\n", "I, ">>
            \o Fmt(a.deponent_name)
            \o <<", the above-named deponent, do hereby verify that the contents of paragraphs 1 to 5 of this affidavit are true to my personal knowledge and belief and nothing material has been concealed.", "\n", "\n", "Verified at ">>
            \o Fmt(a.verification_place)
            \o <<" on this ">>
            \o Fmt(a.verification_day)
            \o <<" day of ">>
            \o Fmt(a.verification_month)
            \o <<", ">>
            \o Fmt(a.year)
            \o <<".", "\n", "\n", "Signature of Deponent: _______________________", "\n", "Name: ">>
            \o Fmt(a.deponent_name)
            \o <<"\n">>
    IN Ok(header \o parties \o body)

(* --------------------- 2. Name Change Affidavit ------------------------ *)
Params_name_change ==
  {"deponent_name", "father_name", "husband_name", "age", "residence", "maiden_name",
   "present_name", "marriage_date", "marriage_place", "marriage_certificate_no",
   "aadhar_number", "pan_number", "witnesses"}

Def_name_change == [p \in {"witnesses"} |-> PyNone]

DefaultWitnesses ==
  PyList(<< Dict({"name", "address"}, PyStr(<<"________________">>), PyStr(<<"________________">>)),
            Dict({"name", "address"}, PyStr(<<"________________">>), PyStr(<<"________________">>)) >>)

\* the loop over enumerate(witnesses, start=1)
name_change_witness_text(witnesses) ==
  Concat([i \in 1..Len(witnesses) |->
            Str(i) \o <<". Name: ">> \o Fmt(Get(witnesses[i], "name"))
                   \o <<"   Address: ">> \o Fmt(Get(witnesses[i], "address"))
                   \o <<"   Signature: __________________", "\n">>])

\* name_change_verified_at taking the piece after the last comma
name_change_verified_at_last(residence) ==
  IF In(",", residence) THEN Split(residence, ",")[Len(Split(residence, ","))] ELSE residence

\* the place of the verification clause
name_change_verified_at(residence) ==
  IF In(",", residence) THEN Split(residence, ",")[1] ELSE residence

generate_name_change_affidavit(args) ==
  IF Missing(args, Params_name_change, Def_name_change) # {}
  THEN Raise("TypeError", Missing(args, Params_name_change, Def_name_change))
  ELSE
    LET a == Bind(args, Params_name_change, Def_name_change)
        witnesses == PyOr(a.witnesses, DefaultWitnesses)
        header == _center(<<"A","F","F","I","D","A","V","I","T"," ","F","O","R"," ","C","H","A","N","G","E"," ","O","F"," ","N","A","M","E"," ","A","F","T","E","R"," ","M","A","R","R","I","A","G","E">>, 80) \o <<"\n", "\n">>
        witness_text == name_change_witness_text(witnesses.l)
        body ==
            <<"I, ">>
            \o Fmt(a.deponent_name)
            \o <<", daughter of ">>
            \o Fmt(a.father_name)
            \o <<", and wife of ">>
            \o Fmt(PyOr(a.husband_name, PyStr(<<"N/A">>)))
            \o <<", aged ">>
            \o Fmt(a.age)
            \o <<" years, residing at ">>
            \o Fmt(a.residence)
            \o <<", do hereby solemnly affirm and declare as under:", "\n", "\n", "1. That my maiden name is: ">>
            \o Fmt(a.maiden_name)
            \o <<".", "\n", "\n", "2. That I got married to ">>
            \o Fmt(PyOr(a.husband_name, PyStr(<<"N/A">>)))
            \o <<" on ">>
            \o Fmt(a.marriage_date)
            \o <<" at ">>
            \o Fmt(a.marriage_place)
            \o <<", and my Marriage Certificate number is ">>
            \o Fmt(PyOr(a.marriage_certificate_no, PyStr(<<"N/A">>)))
            \o <<".", "\n", "\n", "3. That after my marriage, my name is changed to: ">>
            \o Fmt(a.present_name)
            \o <<".", "\n", "\n", "4. That my AADHAAR Number is: ">>
            \o Fmt(PyOr(a.aadhar_number, PyStr(<<"N/A">>)))
            \o <<".", "\n", "\n", "5. That my PAN Number is: ">>
            \o Fmt(PyOr(a.pan_number, PyStr(<<"N/A">>)))
            \o <<".", "\n", "\n", "6. That the names ">>
            \o Fmt(a.maiden_name)
            \o <<" and ">>
            \o Fmt(a.present_name)
            \o <<" refer to one and the same person (myself).", "\n", "\n", "7. That I am executing this affidavit to be produced before the concerned authorities for the purpose of changing/updating my name in their records.", "\n", "\n", "DEPONENT:", "\n", "Name: ">>
            \o Fmt(a.deponent_name)
            \o <<"\n", "Signature: _______________________", "\n", "\n", "( Affix passport size photograph & get it attested by Notary )", "\n", "\n", "WITNESSES:", "\n">>
            \o witness_text
            \o <<"\n", "\n", "VERIFICATION", "\n", "\n", "Verified at ">>
            \o name_change_verified_at(a.residence.s)
            \o <<" on this ___ day of ____________, 20__ that the contents of this affidavit are true and correct to my knowledge and belief.", "\n", "\n", "Signature of Deponent: _______________________", "\n", "Name: ">>
            \o Fmt(a.deponent_name)
            \o <<"\n">>
    IN Ok(header \o body)

(* ------------------------------ 3. Will -------------------------------- *)
Params_will ==
  {"testator_name", "relation_to_parent", "age", "residence", "executor_name",
   "beneficiaries", "assets", "date_day", "date_month", "year", "place"}

Def_will ==
  [p \in {"assets", "date_day", "date_month", "year", "place"} |->
     CASE p = "assets" -> PyNone
       [] p = "date_day" -> PyStr(<<"___">>)
       [] p = "date_month" -> PyStr(<<"________">>)
       [] p = "year" -> PyStr(<<"20__">>)
       [] p = "place" -> PyStr(<<"________">>)]

DefaultAssets ==
  PyList(<< PyStr(<<"One Flat No. ___ situated at ____________________________.">>),
            PyStr(<<"Jewellery and ornaments.">>),
            PyStr(<<"Bank balances, deposits and investments.">>) >>)

\* will_beneficiaries_text listing the beneficiaries last to first
will_beneficiaries_text_reversed(beneficiaries) ==
  Join(<<"\n">>,
       [i \in 1..Len(beneficiaries) |->
          <<" - ">> \o Fmt(beneficiaries[Len(beneficiaries) + 1 - i]["name"]) \o <<" (Relationship: ">>
                   \o Fmt(GetOr(beneficiaries[Len(beneficiaries) + 1 - i], "relation", PyStr(<<>>))) \o <<")">>])

will_beneficiaries_text(beneficiaries) ==
  Join(<<"\n">>,
       [i \in 1..Len(beneficiaries) |->
          <<" - ">> \o Fmt(beneficiaries[i]["name"]) \o <<" (Relationship: ">>
                   \o Fmt(GetOr(beneficiaries[i], "relation", PyStr(<<>>))) \o <<")">>])

will_assets_text(assets) ==
  Join(<<"\n">>, [i \in 1..Len(assets) |-> <<" - ">> \o Fmt(assets[i])])

generate_will(args) ==
  IF Missing(args, Params_will, Def_will) # {}
  THEN Raise("TypeError", Missing(args, Params_will, Def_will))
  ELSE
    LET a == Bind(args, Params_will, Def_will)
        assets == PyOr(a.assets, DefaultAssets)
    IN IF \E i \in 1..Len(a.beneficiaries.l) : "name" \notin DOMAIN a.beneficiaries.l[i]
       THEN Raise("KeyError", {"name"})
       ELSE
         LET beneficiaries_text == will_beneficiaries_text(a.beneficiaries.l)
             assets_text == will_assets_text(assets.l)
             header == _center(<<"L","A","S","T"," ","W","I","L","L"," ","A","N","D"," ","T","E","S","T","A","M","E","N","T">>, 80) \o <<"\n", "\n">>
             body ==
            <<"I, ">>
            \o Fmt(a.testator_name)
            \o <<", ">>
            \o Fmt(a.relation_to_parent)
            \o <<", aged ">>
            \o Fmt(a.age)
            \o <<", residing at ">>
            \o Fmt(a.residence)
            \o <<", hereby revoke all former Wills and declare this to be my last Will and Testament.", "\n", "\n", "1. I appoint ">>
            \o Fmt(a.executor_name)
            \o <<" as the Executor of this my Will.", "\n", "\n", "2. I declare that I am of sound mind and make this Will of my own free will.", "\n", "\n", "3. My assets are as follows:", "\n">>
            \o assets_text
            \o <<"\n", "\n", "4. I hereby give, devise and bequeath all my assets described above to the following beneficiary(ies):", "\n">>
            \o beneficiaries_text
            \o <<"\n", "\n", "5. All debts, funeral and testamentary expenses shall be paid out of my estate.", "\n", "\n", "IN WITNESS WHEREOF I have set my hand this ">>
            \o Fmt(a.date_day)
            \o <<" day of ">>
            \o Fmt(a.date_month)
            \o <<", ">>
            \o Fmt(a.year)
            \o <<" at ">>
            \o Fmt(a.place)
            \o <<".", "\n", "\n", "Signed: ">>
            \o Fmt(a.testator_name)
            \o <<"\n", "Signature: _______________________", "\n", "\n", "WITNESSES:", "\n", "1. Name: __________________  Address: __________________  Signature: __________________", "\n", "2. Name: __________________  Address: __________________  Signature: __________________", "\n">>
         IN Ok(header \o body)

(* --------------------- 4. General Power of Attorney -------------------- *)
Params_power_of_attorney ==
  {"grantor_name", "grantor_address", "agent_name", "agent_address", "scope_of_powers",
   "not_allowed_clause", "date_signed"}

Def_power_of_attorney ==
  [p \in {"not_allowed_clause", "date_signed"} |->
     IF p = "not_allowed_clause" THEN PyNone ELSE PyStr(<<"________">>)]

DefaultNotAllowed ==
  PyStr(<<"The attorney shall not sell or transfer the ownership of the property without the prior written consent of the Grantor.">>)

\* numbered_powers_text numbering from 0
numbered_powers_text_from_zero(powers) ==
  Join(<<"\n">>, [j \in 1..Len(powers) |-> Str(j - 1) \o <<". ">> \o Fmt(powers[j])])

\* "\n".join([f"{i+1}. {p}" for i, p in enumerate(powers)])
numbered_powers_text(powers) ==
  Join(<<"\n">>, [j \in 1..Len(powers) |-> Str((j - 1) + 1) \o <<". ">> \o Fmt(powers[j])])

generate_power_of_attorney(args) ==
  IF Missing(args, Params_power_of_attorney, Def_power_of_attorney) # {}
  THEN Raise("TypeError", Missing(args, Params_power_of_attorney, Def_power_of_attorney))
  ELSE
    LET a == Bind(args, Params_power_of_attorney, Def_power_of_attorney)
        header == _center(<<"P","O","W","E","R"," ","O","F"," ","A","T","T","O","R","N","E","Y">>, 80) \o <<"\n", "\n">>
        powers_text == numbered_powers_text(a.scope_of_powers.l)
        not_allowed == PyOr(a.not_allowed_clause, DefaultNotAllowed)
        body ==
            <<"KNOW ALL MEN BY THESE PRESENTS that I, ">>
            \o Fmt(a.grantor_name)
            \o <<", resident of ">>
            \o Fmt(a.grantor_address)
            \o <<", do hereby nominate and appoint ">>
            \o Fmt(a.agent_name)
            \o <<", resident of ">>
            \o Fmt(a.agent_address)
            \o <<", to be my true and lawful Attorney to do the following acts, deeds and things on my behalf:", "\n", "\n">>
            \o powers_text
            \o <<"\n", "\n">>
            \o Fmt(not_allowed)
            \o <<"\n", "\n", "This Power of Attorney is executed voluntarily on this day ">>
            \o Fmt(a.date_signed)
            \o <<".", "\n", "\n", "EXECUTANT:", "\n", "Name: ">>
            \o Fmt(a.grantor_name)
            \o <<"\n", "Signature: _______________________", "\n", "\n", "ATTORNEY:", "\n", "Name: ">>
            \o Fmt(a.agent_name)
            \o <<"\n", "Signature: _______________________", "\n", "\n", "WITNESSES:", "\n", "1. Name: __________________  Signature: __________________  Address: __________________", "\n", "2. Name: __________________  Signature: __________________  Address: __________________", "\n">>
    IN Ok(header \o body)

(* --------------------- 5. Special Power of Attorney -------------------- *)
Params_special_power_of_attorney ==
  {"grantor_name", "grantor_address", "agent_name", "agent_address",
   "property_description", "specific_powers", "date_signed"}

Def_special_power_of_attorney ==
  [p \in {"specific_powers", "date_signed"} |->
     IF p = "specific_powers" THEN PyNone ELSE PyStr(<<"________">>)]

DefaultSpecificPowers ==
  PyList(<< PyStr(<<"To negotiate terms and execute the Sale Deed.">>),
            PyStr(<<"To present the Sale Deed before the Sub-Registrar for registration.">>),
            PyStr(<<"To declare the consideration and pay stamp duty and registration fees.">>),
            PyStr(<<"To obtain the registered document and sign all receipts.">>) >>)

generate_special_power_of_attorney(args) ==
  IF Missing(args, Params_special_power_of_attorney, Def_special_power_of_attorney) # {}
  THEN Raise("TypeError", Missing(args, Params_special_power_of_attorney, Def_special_power_of_attorney))
  ELSE
    LET a == Bind(args, Params_special_power_of_attorney, Def_special_power_of_attorney)
        header == _center(<<"S","P","E","C","I","A","L"," ","P","O","W","E","R"," ","O","F"," ","A","T","T","O","R","N","E","Y"," ","T","O"," ","E","X","E","C","U","T","E"," ","S","A","L","E"," ","D","E","E","D"," ","A","N","D"," ","P","R","E","S","E","N","T"," ","F","O","R"," ","R","E","G","I","S","T","R","A","T","I","O","N">>, 80) \o <<"\n", "\n">>
        specific_powers == PyOr(a.specific_powers, DefaultSpecificPowers)
        powers_text == numbered_powers_text(specific_powers.l)
        body ==
            <<"KNOW ALL MEN BY THESE PRESENTS that I, ">>
            \o Fmt(a.grantor_name)
            \o <<", of ">>
            \o Fmt(a.grantor_address)
            \o <<", do hereby appoint ">>
            \o Fmt(a.agent_name)
            \o <<", of ">>
            \o Fmt(a.agent_address)
            \o <<", to be my true and lawful attorney for the specific purpose of executing the sale deed and completing registration formalities in respect of the property described below:", "\n", "\n", "PROPERTY DESCRIPTION:", "\n">>
            \o Fmt(a.property_description)
            \o <<"\n", "\n", "POWERS:", "\n">>
            \o powers_text
            \o <<"\n", "\n", "IN WITNESS WHEREOF I have signed this Special Power of Attorney on this day ">>
            \o Fmt(a.date_signed)
            \o <<".", "\n", "\n", "EXECUTANT:", "\n", "Name: ">>
            \o Fmt(a.grantor_name)
            \o <<"\n", "Signature: _______________________", "\n", "Address: ">>
            \o Fmt(a.grantor_address)
            \o <<"\n", "\n", "ATTORNEY:", "\n", "Name: ">>
            \o Fmt(a.agent_name)
            \o <<"\n", "Signature: _______________________", "\n", "Address: ">>
            \o Fmt(a.agent_address)
            \o <<"\n", "\n", "WITNESSES:", "\n", "1. Name: __________________  Signature: __________________  Address: __________________", "\n", "2. Name: __________________  Signature: __________________  Address: __________________", "\n">>
    IN Ok(header \o body)

(* --------------------------- 6. Vakalatnama ---------------------------- *)
Params_vakalatnama ==
  {"principal_name", "advocate_name", "court_name", "case_title", "role",
   "enrolment_no", "date_signed", "place"}

\* Def_vakalatnama with a date default that changes once a call has been made
Def_vakalatnama_dated ==
  [p \in {"enrolment_no", "date_signed", "place"} |->
     CASE p = "enrolment_no" -> PyNone
       [] p = "date_signed" ->
            IF snap.op = "none" THEN PyStr(<<"________">>) ELSE PyStr(<<"2", "0", "2", "5">>)
       [] p = "place" -> PyStr(<<"________">>)]

Def_vakalatnama ==
  [p \in {"enrolment_no", "date_signed", "place"} |->
     IF p = "enrolment_no" THEN PyNone ELSE PyStr(<<"________">>)]

generate_vakalatnama(args) ==
  IF Missing(args, Params_vakalatnama, Def_vakalatnama) # {}
  THEN Raise("TypeError", Missing(args, Params_vakalatnama, Def_vakalatnama))
  ELSE
    LET a == Bind(args, Params_vakalatnama, Def_vakalatnama)
        header == _center(<<"V","A","K","A","L","A","T","N","A","M","A">>, 80) \o <<"\n", "\n">>
        body ==
            <<"BEFORE THE ">>
            \o Upper(a.court_name.s)
            \o <<"\n", "\n", "Case / Matter: ">>
            \o Fmt(a.case_title)
            \o <<"\n", "Role: ">>
            \o Fmt(a.role)
            \o <<"\n", "\n", "I/We, ">>
            \o Fmt(a.principal_name)
            \o <<", do hereby appoint and retain ">>
            \o Fmt(a.advocate_name)
            \o <<" (Enrollment No.: ">>
            \o Fmt(PyOr(a.enrolment_no, PyStr(<<"N/A">>)))
            \o <<") to be my/our Advocate in the above matter and authorize the Advocate to appear, represent, sign, file, verify, withdraw, compromise and do all acts necessary in relation thereto.", "\n", "\n", "Signature of Principal: _______________________", "\n", "Name: ">>
            \o Fmt(a.principal_name)
            \o <<"\n", "\n", "Advocate:", "\n", "Name: ">>
            \o Fmt(a.advocate_name)
            \o <<"\n", "Enrollment No.: ">>
            \o Fmt(PyOr(a.enrolment_no, PyStr(<<"N/A">>)))
            \o <<"\n", "Signature: _______________________", "\n", "\n", "Date: ">>
            \o Fmt(a.date_signed)
            \o <<"\n", "Place: ">>
            \o Fmt(a.place)
            \o <<"\n">>
    IN Ok(header \o body)

(* ---------------------- 7. Tenancy Lease Agreement --------------------- *)
Params_tenancy_lease ==
  {"lessor_name", "lessor_address", "lessee_name", "lessee_address", "property_address",
   "rent_amount_in_rs", "lease_commencement_date", "lease_duration_months",
   "security_deposit_in_rs", "notice_period_days"}

Def_tenancy_lease ==
  [p \in {"security_deposit_in_rs", "notice_period_days"} |->
     IF p = "security_deposit_in_rs" THEN PyNone ELSE PyInt(30)]

\* tenancy_security_text with its test inverted
tenancy_security_text_inverted(security_deposit_in_rs) ==
  IF ~Truthy(security_deposit_in_rs)
  THEN <<"Security deposit: Rs. ">> \o Fmt(security_deposit_in_rs) \o <<".">>
  ELSE <<"Security deposit: Not specified.">>

tenancy_security_text(security_deposit_in_rs) ==
  IF Truthy(security_deposit_in_rs)
  THEN <<"Security deposit: Rs. ">> \o Fmt(security_deposit_in_rs) \o <<".">>
  ELSE <<"Security deposit: Not specified.">>

generate_tenancy_lease(args) ==
  IF Missing(args, Params_tenancy_lease, Def_tenancy_lease) # {}
  THEN Raise("TypeError", Missing(args, Params_tenancy_lease, Def_tenancy_lease))
  ELSE
    LET a == Bind(args, Params_tenancy_lease, Def_tenancy_lease)
        header == _center(<<"L","E","A","S","E"," ","O","F"," ","A"," ","H","O","U","S","E"," ","O","N"," ","M","O","N","T","H","L","Y"," ","T","E","N","A","N","C","Y">>, 80) \o <<"\n", "\n">>
        security_text == tenancy_security_text(a.security_deposit_in_rs)
        body ==
            <<"THIS AGREEMENT OF LEASE is made on this ">>
            \o Fmt(a.lease_commencement_date)
            \o <<" between:", "\n", "\n", "LESSOR: ">>
            \o Fmt(a.lessor_name)
            \o <<", residing at ">>
            \o Fmt(a.lessor_address)
            \o <<" (hereinafter called the 'Lessor');", "\n", "\n", "AND", "\n", "\n", "LESSEE: ">>
            \o Fmt(a.lessee_name)
            \o <<", residing at ">>
            \o Fmt(a.lessee_address)
            \o <<" (hereinafter called the 'Lessee').", "\n", "\n", "1. PROPERTY: The Lessor lets and the Lessee takes on lease the house/property known as: ">>
            \o Fmt(a.property_address)
            \o <<".", "\n", "\n", "2. TERM: The lease shall commence on ">>
            \o Fmt(a.lease_commencement_date)
            \o <<" for a period of ">>
            \o Fmt(a.lease_duration_months)
            \o <<" months.", "\n", "\n", "3. RENT: The rent shall be Rs. ">>
            \o Fmt(a.rent_amount_in_rs)
            \o <<" per month payable in advance on or before the 1st day of each month.", "\n", "\n", "4. SECURITY: ">>
            \o security_text
            \o <<"\n", "\n", "5. USE: The Lessee shall use the premises for residential purposes only and shall not sublet the premises without the written consent of the Lessor.", "\n", "\n", "6. MAINTENANCE & REPAIRS: The Lessee shall keep the premises in good repair. Structural repairs shall be the responsibility of the Lessor.", "\n", "\n", "7. UTILITIES: The Lessee shall pay electricity, water and other utilities unless otherwise agreed in writing.", "\n", "\n", "8. TERMINATION: Either party may terminate by giving ">>
            \o Fmt(a.notice_period_days)
            \o <<" days written notice to the other party.", "\n", "\n", "9. POSSESSION: The Lessee shall deliver peaceful and vacant possession upon termination.", "\n", "\n", "IN WITNESS WHEREOF the parties have executed this Lease on ">>
            \o Fmt(a.lease_commencement_date)
            \o <<".", "\n", "\n", "LESSOR: ">>
            \o Fmt(a.lessor_name)
            \o <<"            LESSEE: ">>
            \o Fmt(a.lessee_name)
            \o <<"\n", "Signature: __________________     Signature: __________________", "\n", "\n", "WITNESSES:", "\n", "1. Name: __________________  Signature: __________________  Address: __________________", "\n", "2. Name: __________________  Signature: __________________  Address: __________________", "\n">>
    IN Ok(header \o body)

(* ------------------------- optional export ----------------------------- *)
\* Document.save: a destination in a directory that does not exist cannot be written
Writable(filename) == filename = "out.docx"

Outcome(result, written) == [k \in {"result", "files"} |-> IF k = "result" THEN result ELSE written]

\* the outcome of save_as_docx(text, filename) and the files it leaves
save_as_docx(text, filename) ==
  IF ~docxInstalled
  THEN Outcome(Raise("RuntimeError", {}), files)
  ELSE LET paragraphs == SplitLines(text)
       IN IF Writable(filename)
          THEN Outcome(Ok(<<>>),
                       [f \in DOMAIN files \cup {filename} |->
                          IF f = filename THEN Len(paragraphs) ELSE files[f]])
          ELSE Outcome(Raise("OSError", {}), files)

(* ------------------------- the calls explored -------------------------- *)
Generators ==
  {"generate_affidavit", "generate_name_change_affidavit", "generate_will",
   "generate_power_of_attorney", "generate_special_power_of_attorney",
   "generate_vakalatnama", "generate_tenancy_lease"}

OptStrFields ==
  {"husband_name", "marriage_certificate_no", "aadhar_number", "pan_number",
   "not_allowed_clause", "enrolment_no", "security_deposit_in_rs"}
IntFields == {"paragraphs_true_up_to", "lease_duration_months", "notice_period_days"}
StrListFields == {"assets", "scope_of_powers", "specific_powers"}
DictListFields == {"beneficiaries", "witnesses"}
OptListFields == {"assets", "specific_powers", "witnesses"}

Lists(S) == UNION {[1..k -> S] : k \in 0..MaxList}

BeneficiaryDicts ==
  { Dict({"name", "relation"}, PyStr(<<"a">>), PyStr(<<"a">>)),
    Dict({"name", "relation"}, PyStr(<<",">>), PyStr(<<>>)),
    Dict({"name"}, PyStr(<<"a">>), PyNone),
    Dict({"relation"}, PyNone, PyStr(<<"a">>)) }

WitnessDicts ==
  { Dict({"name", "address"}, PyStr(<<"a">>), PyStr(<<",">>)),
    Dict({"name"}, PyStr(<<"a">>), PyNone) }

\* the values a call may pass for parameter f
Vals(f) ==
  IF f \in IntFields THEN {PyInt(n) : n \in IntVals}
  ELSE IF f \in StrListFields
  THEN {PyList(l) : l \in Lists({PyStr(t) : t \in ElemText})}
         \cup (IF f \in OptListFields THEN {PyNone} ELSE {})
  ELSE IF f = "beneficiaries" THEN {PyList(l) : l \in Lists(BeneficiaryDicts)}
  ELSE IF f = "witnesses" THEN {PyList(l) : l \in Lists(WitnessDicts)} \cup {PyNone}
  ELSE {PyStr(t) : t \in Text} \cup (IF f \in OptStrFields THEN {PyNone} ELSE {})

\* a call that passes every parameter
Base(params) ==
  [p \in params |->
     IF p \in IntFields THEN PyInt(7)
     ELSE IF p \in StrListFields THEN PyList(<<PyStr(<<"a">>)>>)
     ELSE IF p = "beneficiaries" THEN PyList(<<Dict({"name", "relation"}, PyStr(<<"a">>), PyStr(<<"a">>))>>)
     ELSE IF p = "witnesses" THEN PyList(<<Dict({"name", "address"}, PyStr(<<"a">>), PyStr(<<",">>))>>)
     ELSE PyStr(<<"a">>)]

\* keyword arguments: the required parameters alone or all of them, with at
\* most one parameter left out or given another value
Calls(params, defaults) ==
  LET base == Base(params)
      starts == {params \ DOMAIN defaults, params}
  IN {[p \in D |-> base[p]] : D \in starts}
       \cup {[p \in D \ {f} |-> base[p]] : D \in starts, f \in params}
       \cup UNION {{[p \in D \cup {f} |-> IF p = f THEN v ELSE base[p]] : D \in starts, v \in Vals(f)}
                     : f \in params}

\* the smaller set of calls used where two calls are compared
DetCalls(params, defaults) ==
  LET base == Base(params)
  IN {[p \in D |-> base[p]] : D \in {params \ DOMAIN defaults, params}}
       \cup {[p \in params \ {f} |-> base[p]] : f \in params}

(* ------------------------------ actions -------------------------------- *)
\* a remembered call
Snap(name, args, result, interleaved) ==
  [k \in {"op", "kw", "res", "interleaved"} |->
     CASE k = "op" -> name [] k = "kw" -> args [] k = "res" -> result
       [] k = "interleaved" -> interleaved]

NoSnap == Snap("none", NoCall, NoResult, FALSE)

Init ==
  /\ pc = "idle"
  /\ op = "none"
  /\ kw = NoCall
  /\ res = NoResult
  /\ files = [f \in {} |-> 0]
  /\ docxInstalled \in BOOLEAN
  /\ snap = NoSnap

\* a call of a pure function: nothing but the caller's result changes
Do(name, args, result) ==
  /\ pc = "idle"
  /\ pc' = "returned"
  /\ op' = name
  /\ kw' = args
  /\ res' = result
  /\ UNCHANGED <<files, docxInstalled>>

Call_center ==
  \E text \in Text, width \in Widths :
    /\ Do("_center", [k \in {"text", "width"} |-> IF k = "text" THEN PyStr(text) ELSE PyInt(width)], Ok(_center(text, width)))
    /\ UNCHANGED snap

Call_line ==
  \E width \in Widths :
    /\ Do("_line", [k \in {"width"} |-> PyInt(width)], Ok(_line(width)))
    /\ UNCHANGED snap

Call_generate_affidavit ==
  \E args \in Calls(Params_affidavit, Def_affidavit) :
    Do("generate_affidavit", args, generate_affidavit(args)) /\ UNCHANGED snap

Call_generate_name_change_affidavit ==
  \E args \in Calls(Params_name_change, Def_name_change) :
    Do("generate_name_change_affidavit", args, generate_name_change_affidavit(args)) /\ UNCHANGED snap

Call_generate_will ==
  \E args \in Calls(Params_will, Def_will) :
    Do("generate_will", args, generate_will(args)) /\ UNCHANGED snap

Call_generate_power_of_attorney ==
  \E args \in Calls(Params_power_of_attorney, Def_power_of_attorney) :
    Do("generate_power_of_attorney", args, generate_power_of_attorney(args)) /\ UNCHANGED snap

Call_generate_special_power_of_attorney ==
  \E args \in Calls(Params_special_power_of_attorney, Def_special_power_of_attorney) :
    Do("generate_special_power_of_attorney", args, generate_special_power_of_attorney(args)) /\ UNCHANGED snap

Call_generate_vakalatnama ==
  \E args \in Calls(Params_vakalatnama, Def_vakalatnama) :
    Do("generate_vakalatnama", args, generate_vakalatnama(args)) /\ UNCHANGED snap

Call_generate_tenancy_lease ==
  \E args \in Calls(Params_tenancy_lease, Def_tenancy_lease) :
    Do("generate_tenancy_lease", args, generate_tenancy_lease(args)) /\ UNCHANGED snap

\* the caller exports the text it holds: the document just generated, or
\* the text of an export it tries again
Call_save_as_docx ==
  /\ pc = "returned"
  /\ \/ op \in Generators /\ res.status = "ok"
     \/ op = "save_as_docx"
  /\ \E filename \in Dests :
       LET text == IF op = "save_as_docx" THEN kw.text.s ELSE res.text
           r == save_as_docx(text, filename)
       IN /\ op' = "save_as_docx"
          /\ kw' = [k \in {"text", "filename"} |-> IF k = "text" THEN PyStr(text) ELSE PyStr(<<filename>>)]
          /\ res' = r.result
          /\ files' = r.files
  /\ UNCHANGED <<pc, docxInstalled, snap>>

\* the caller goes on to its next statement
Return ==
  /\ pc = "returned"
  /\ pc' = "idle"
  /\ op' = "none"
  /\ kw' = NoCall
  /\ res' = NoResult
  /\ UNCHANGED <<files, docxInstalled, snap>>

Next ==
  \/ Call_center
  \/ Call_line
  \/ Call_generate_affidavit
  \/ Call_generate_name_change_affidavit
  \/ Call_generate_will
  \/ Call_generate_power_of_attorney
  \/ Call_generate_special_power_of_attorney
  \/ Call_generate_vakalatnama
  \/ Call_generate_tenancy_lease
  \/ Call_save_as_docx
  \/ Return

Spec == Init /\ [][Next]_vars

TypeOK ==
  /\ pc \in {"idle", "returned"}
  /\ op \in Generators \cup {"none", "_center", "_line", "save_as_docx"}
  /\ res.status \in {"none", "ok", "TypeError", "KeyError", "RuntimeError", "OSError"}
  /\ docxInstalled \in BOOLEAN


(* ---------------- repeated calls, compared with the first -------------- *)
\* as Do; snap keeps the first call made and notes when another call follows it
DetDo(name, args, result) ==
  /\ Do(name, args, result)
  /\ snap' = IF snap.op = "none"
             THEN Snap(name, args, result, FALSE)
             ELSE IF snap.op = name /\ snap.kw = args THEN snap
             ELSE [snap EXCEPT !.interleaved = TRUE]

DetCall_generate_affidavit ==
  \E args \in DetCalls(Params_affidavit, Def_affidavit) :
    DetDo("generate_affidavit", args, generate_affidavit(args))

DetCall_generate_name_change_affidavit ==
  \E args \in DetCalls(Params_name_change, Def_name_change) :
    DetDo("generate_name_change_affidavit", args, generate_name_change_affidavit(args))

DetCall_generate_will ==
  \E args \in DetCalls(Params_will, Def_will) :
    DetDo("generate_will", args, generate_will(args))

DetCall_generate_power_of_attorney ==
  \E args \in DetCalls(Params_power_of_attorney, Def_power_of_attorney) :
    DetDo("generate_power_of_attorney", args, generate_power_of_attorney(args))

DetCall_generate_special_power_of_attorney ==
  \E args \in DetCalls(Params_special_power_of_attorney, Def_special_power_of_attorney) :
    DetDo("generate_special_power_of_attorney", args, generate_special_power_of_attorney(args))

DetCall_generate_vakalatnama ==
  \E args \in DetCalls(Params_vakalatnama, Def_vakalatnama) :
    DetDo("generate_vakalatnama", args, generate_vakalatnama(args))

DetCall_generate_tenancy_lease ==
  \E args \in DetCalls(Params_tenancy_lease, Def_tenancy_lease) :
    DetDo("generate_tenancy_lease", args, generate_tenancy_lease(args))

NextDet ==
  \/ DetCall_generate_affidavit
  \/ DetCall_generate_name_change_affidavit
  \/ DetCall_generate_will
  \/ DetCall_generate_power_of_attorney
  \/ DetCall_generate_special_power_of_attorney
  \/ DetCall_generate_vakalatnama
  \/ DetCall_generate_tenancy_lease
  \/ Call_save_as_docx
  \/ Return

SpecDet == Init /\ [][NextDet]_vars


(* ------------------------- reading a result ---------------------------- *)
Returned(name) == pc = "returned" /\ op = name

Given(f) == f \in DOMAIN kw

IsEmpty(v) == (v.t = "str" /\ v.s = <<>>) \/ (v.t = "list" /\ v.l = <<>>)

OmittedOrEmpty(f) == ~Given(f) \/ IsEmpty(kw[f])

ResultLines == SplitLines(res.text)

IsPrefix(p, s) == Len(p) <= Len(s) /\ SubSeq(s, 1, Len(p)) = p

Digits == {"0", "1", "2", "3", "4", "5", "6", "7", "8", "9"}

\* atoms that come from a parameter or from a default, never from fixed prose
ValueAtoms == Alphabet \cup Digits \cup {"A", "N/A", "A to T", "None", "___", "________", "20__"}

\* what the text shows right after the first occurrence of the atom before
SlotAfter(text, before) ==
  LET i == CHOOSE k \in 1..Len(text) : text[k] = before /\ \A j \in 1..(k - 1) : text[j] # before
      run == {n \in 0..(Len(text) - i) : \A m \in 1..n : text[i + m] \in ValueAtoms}
      n == CHOOSE m \in run : \A o \in run : o <= m
  IN SubSeq(text, i + 1, i + n)

BlankPlaceholders == {<<"___">>, <<"________">>}

\* the fields the documentation of each kind lists as required
RequiredFields(name) ==
  CASE name = "generate_affidavit" ->
         {"court_name", "court_place", "petition_no", "year", "petitioner", "respondent",
          "deponent_name", "deponent_age", "father_or_husband_name", "residence"}
    [] name = "generate_name_change_affidavit" ->
         {"deponent_name", "father_name", "maiden_name", "present_name", "marriage_date",
          "marriage_place"}
    [] name = "generate_will" ->
         {"testator_name", "relation_to_parent", "age", "residence", "executor_name",
          "beneficiaries"}
    [] name = "generate_power_of_attorney" ->
         {"grantor_name", "grantor_address", "agent_name", "agent_address", "scope_of_powers"}
    [] name = "generate_special_power_of_attorney" ->
         {"grantor_name", "grantor_address", "agent_name", "agent_address",
          "property_description"}
    [] name = "generate_vakalatnama" ->
         {"principal_name", "advocate_name", "court_name", "case_title", "role"}
    [] name = "generate_tenancy_lease" ->
         {"lessor_name", "lessor_address", "lessee_name", "lessee_address", "property_address",
          "rent_amount_in_rs", "lease_commencement_date", "lease_duration_months"}

\* the optional fields: generator, field, the atom that precedes the field's
\* place in the text, and the documented defaults
OptionalDefaults ==
  { <<"generate_affidavit", "verification_place", "Verified at ", BlankPlaceholders>>,
    <<"generate_affidavit", "verification_day", " on this ", BlankPlaceholders>>,
    <<"generate_affidavit", "verification_month", " day of ", BlankPlaceholders>>,
    <<"generate_affidavit", "paragraphs_true_up_to", "3. That the contents of paragraphs 1 to ", {<<"2", "0">>}>>,
    <<"generate_affidavit", "annexures_range", "4. That annexures ", {<<"A to T">>}>>,
    <<"generate_will", "date_day", "IN WITNESS WHEREOF I have set my hand this ", BlankPlaceholders>>,
    <<"generate_will", "date_month", " day of ", BlankPlaceholders>>,
    <<"generate_will", "place", " at ", BlankPlaceholders>>,
    <<"generate_power_of_attorney", "date_signed", "This Power of Attorney is executed voluntarily on this day ", BlankPlaceholders>>,
    <<"generate_vakalatnama", "date_signed", "Date: ", BlankPlaceholders>>,
    <<"generate_vakalatnama", "place", "Place: ", BlankPlaceholders>>,
    <<"generate_vakalatnama", "enrolment_no", " (Enrollment No.: ", {<<"N/A">>}>>,
    <<"generate_name_change_affidavit", "husband_name", ", and wife of ", {<<"N/A">>}>>,
    <<"generate_name_change_affidavit", "marriage_certificate_no", ", and my Marriage Certificate number is ", {<<"N/A">>}>>,
    <<"generate_name_change_affidavit", "aadhar_number", "4. That my AADHAAR Number is: ", {<<"N/A">>}>>,
    <<"generate_name_change_affidavit", "pan_number", "5. That my PAN Number is: ", {<<"N/A">>}>> }

RequiredAllSupplied == \A f \in RequiredFields(op) : Given(f) /\ ~IsEmpty(kw[f])

(* ------------------------------ claims --------------------------------- *)
\* C1: a generator call that omits a required field, or passes it empty,
\* ends in an error that names the field and returns no text.
C1_RequiredFieldEnforced ==
  (pc = "returned" /\ op \in Generators) =>
    \A f \in RequiredFields(op) :
      OmittedOrEmpty(f) => (res.status # "ok" /\ f \in res.fields /\ res.text = <<>>)

\* C2: a generator call that omits an optional field, or passes it empty,
\* raises no error and shows the documented default in the field's place.
C2_OptionalDefaultShown ==
  \A row \in OptionalDefaults :
    (Returned(row[1]) /\ RequiredAllSupplied /\ OmittedOrEmpty(row[2])) =>
      (res.status = "ok" /\ SlotAfter(res.text, row[3]) \in row[4])


Numeral(i) == <<"1", "2", "3", "4", "5", "6", "7", "8", "9">>[i]

AppointmentClause == "KNOW ALL MEN BY THESE PRESENTS that I, "

StandardRestriction ==
  <<"The attorney shall not sell or transfer the ownership of the property without the prior written consent of the Grantor.">>

\* the restriction clause a call asks for
RestrictionOf(args) ==
  IF "not_allowed_clause" \in DOMAIN args /\ args.not_allowed_clause.t = "str"
       /\ args.not_allowed_clause.s # <<>>
  THEN args.not_allowed_clause.s
  ELSE StandardRestriction

\* C3: a General Power of Attorney for N >= 1 powers has, between the
\* appointment clause and the restriction clause, exactly N power lines, the
\* i-th being "i. " followed by the i-th power supplied.
C3_PowersNumbered ==
  (Returned("generate_power_of_attorney") /\ res.status = "ok"
     /\ Len(kw.scope_of_powers.l) >= 1) =>
    LET powers == kw.scope_of_powers.l
        N == Len(powers)
        L == ResultLines
    IN /\ Len(L) >= N + 6
       /\ L[3] # <<>> /\ L[3][1] = AppointmentClause
       /\ L[4] = <<>>
       /\ \A i \in 1..N : L[4 + i] = <<Numeral(i), ". ">> \o powers[i].s
       /\ L[N + 5] = <<>>
       /\ L[N + 6] = RestrictionOf(kw)

C3_Witness ==
  /\ Returned("generate_power_of_attorney") /\ res.status = "ok"
  /\ Len(kw.scope_of_powers.l) >= 2
  /\ kw.scope_of_powers.l[1] # kw.scope_of_powers.l[2]

BequestClause ==
  <<"4. I hereby give, devise and bequeath all my assets described above to the following beneficiary(ies):">>

\* C4: the Will shows under bequest clause 4 exactly one bulleted line per
\* beneficiary supplied, the i-th with the i-th name: the supplied order is
\* kept and equal names are not merged.
C4_BeneficiariesInOrder ==
  (Returned("generate_will") /\ res.status = "ok") =>
    LET B == kw.beneficiaries.l
        L == ResultLines
    IN \E c \in 1..Len(L) :
         /\ L[c] = BequestClause
         /\ \A d \in 1..Len(L) : L[d] = BequestClause => d = c
         /\ Len(L) >= c + Len(B) + 1
         /\ \A i \in 1..Len(B) :
              IsPrefix(<<" - ">> \o B[i]["name"].s \o <<" (Relationship: ">>, L[c + i])
         /\ L[c + Len(B) + 1] = <<>>

C4_Witness ==
  /\ Returned("generate_will") /\ res.status = "ok"
  /\ Len(kw.beneficiaries.l) >= 2
  /\ kw.beneficiaries.l[1]["name"] = kw.beneficiaries.l[2]["name"]
  /\ kw.beneficiaries.l[1] # kw.beneficiaries.l[2]

\* the padding of a centred text: L spaces on the left, R on the right
Padded(out, text, L, R) == out = Spaces(L) \o text \o Spaces(R)

\* the claim of C5 as first stated: the odd space always goes to the right
C5_ExtraSpaceOnRight ==
  Returned("_center") =>
    LET text == kw.text.s
        width == kw.width.n
        d == width - Len(text)
    IN IF Len(text) > width THEN res.text = text
       ELSE /\ Len(res.text) = width
            /\ \E L, R \in 0..width :
                 /\ Padded(res.text, text, L, R)
                 /\ L + R = d
                 /\ (d % 2 = 0 => L = R)
                 /\ (d % 2 = 1 => R = L + 1)

\* C5 (amended): _center returns the text unchanged when it is longer than
\* the width; otherwise a string of length width, the text between L and R
\* spaces with L + R = width - len(text), L = R when that is even and, when
\* it is odd, R = L + 1 for an even width and L = R + 1 for an odd width.
C5_CenterPadding ==
  Returned("_center") =>
    LET text == kw.text.s
        width == kw.width.n
        d == width - Len(text)
    IN IF Len(text) > width THEN res.text = text
       ELSE /\ Len(res.text) = width
            /\ \E L, R \in 0..width :
                 /\ Padded(res.text, text, L, R)
                 /\ L + R = d
                 /\ (d % 2 = 0 => L = R)
                 /\ (d % 2 = 1 /\ width % 2 = 0 => R = L + 1)
                 /\ (d % 2 = 1 /\ width % 2 = 1 => L = R + 1)

C5_Witness ==
  /\ Returned("_center")
  /\ kw.width.n % 2 = 1
  /\ Len(kw.text.s) > 0
  /\ (kw.width.n - Len(kw.text.s)) % 2 = 1
  /\ kw.width.n > Len(kw.text.s)

\* line is text centred to width, the odd space on the right
CentredTo(line, text, width) ==
  \E L \in 0..width :
    /\ Padded(line, text, L, width - Len(text) - L)
    /\ (width - Len(text) - L) - L \in {0, 1}

\* C6: a Writ Affidavit called with every required field and the three
\* verification fields contains the line "WRIT PETITION NO. <petition_no> OF
\* <year>" centred to width 80 and the sentence "Verified at <place> on this
\* <day> day of <month>, <year>." with the same year.
C6_PetitionLineAndVerification ==
  (Returned("generate_affidavit")
     /\ RequiredFields("generate_affidavit") \subseteq DOMAIN kw
     /\ {"verification_place", "verification_day", "verification_month"} \subseteq DOMAIN kw) =>
    /\ res.status = "ok"
    /\ \E i \in 1..Len(ResultLines) :
         CentredTo(ResultLines[i],
                   <<"W","R","I","T"," ","P","E","T","I","T","I","O","N"," ","N","O","."," ">>
                     \o kw.petition_no.s \o <<" ","O","F"," ">> \o kw.year.s,
                   80)
    /\ \E i \in 1..Len(ResultLines) :
         ResultLines[i] = <<"Verified at ">> \o kw.verification_place.s \o <<" on this ">>
                            \o kw.verification_day.s \o <<" day of ">>
                            \o kw.verification_month.s \o <<", ">> \o kw.year.s \o <<".">>

C6_Witness ==
  /\ Returned("generate_affidavit") /\ res.status = "ok"
  /\ Params_affidavit \subseteq DOMAIN kw
  /\ kw.year.s # <<>>
  /\ kw.year.s # kw.petition_no.s
  /\ kw.verification_place.s # <<>>

\* C7: in a Tenancy Lease, clause 4 says "Not specified" when the security
\* deposit is omitted and shows the deposit when one is supplied; clause 8
\* says "30 days written notice" when the notice period is omitted and shows
\* the supplied number of days otherwise.
C7_LeaseDefaults ==
  (Returned("generate_tenancy_lease") /\ res.status = "ok") =>
    LET HasLine(line) == \E i \in 1..Len(ResultLines) : ResultLines[i] = line
        deposit == kw.security_deposit_in_rs
    IN /\ ~Given("security_deposit_in_rs") =>
            HasLine(<<"4. SECURITY: ", "Security deposit: Not specified.">>)
       /\ (Given("security_deposit_in_rs") /\ deposit.t = "str" /\ deposit.s # <<>>) =>
            HasLine(<<"4. SECURITY: ", "Security deposit: Rs. ">> \o deposit.s \o <<".">>)
       /\ ~Given("notice_period_days") =>
            HasLine(<<"8. TERMINATION: Either party may terminate by giving ", "3", "0",
                      " days written notice to the other party.">>)
       /\ Given("notice_period_days") =>
            HasLine(<<"8. TERMINATION: Either party may terminate by giving ">>
                      \o Str(kw.notice_period_days.n)
                      \o <<" days written notice to the other party.">>)

C7_Witness ==
  /\ Returned("generate_tenancy_lease") /\ res.status = "ok"
  /\ ~Given("notice_period_days")
  /\ Given("security_deposit_in_rs")
  /\ kw.security_deposit_in_rs.t = "str"
  /\ kw.security_deposit_in_rs.s # <<>>

ExportUnavailable == "RuntimeError"

\* C8: every failure of save_as_docx is the one ExportUnavailable condition,
\* which no generator raises, and the text passed in stays as it was.
C8_OneExportCondition ==
  /\ (Returned("save_as_docx") /\ res.status # "ok") => res.status = ExportUnavailable
  /\ (pc = "returned" /\ op \in Generators) => res.status # ExportUnavailable
  /\ Returned("save_as_docx") => kw.text.t = "str"

====
